---- MODULE Spec2Model ----
(***************************************************************************)
(* The MacBridge build agent: the job poller, the per-job pipeline         *)
(* (download, extract, project root, pub get, signAndBuild, build,         *)
(* upload, reportResult) of src/index.js (lines 1-344) and of its          *)
(* reconnect/backoff revision src/unnamed/part_000, which keeps            *)
(* runFlutterBuild, signAndBuild, downloadJobZip and                       *)
(* findFlutterProjectRoot of index.js (part_000 line 288).                 *)
(*                                                                         *)
(* The log relay state (ws, socketReady, logQueue) is written only by      *)
(* sendLog and initWebSocket and is never read by the pipeline; the        *)
(* pipeline actions below therefore leave sendLog calls out.               *)
(*                                                                         *)
(* Specifications: Spec (poller and pipeline), SpecPoll (the poller with   *)
(* each poll's outcome on record), SpecRelay (the log relay),              *)
(* SpecDownload (one downloadJobZip call), SpecFind (one                   *)
(* findFlutterProjectRoot call), SpecWorkspace (the files of one job       *)
(* identifier over several runs), SpecToolchain (one job's toolchain       *)
(* invocations against a clock), SpecExtract (one extractZip call),        *)
(* SpecRetry (one runWithRetry call of src/unnamed/part_002).              *)
(***************************************************************************)
EXTENDS Integers, Sequences, FiniteSets, TLC

VARIABLES
  agent,      \* which revision of the agent runs: "index" or "part000"
  alive,      \* the node process is running
  interval,   \* setInterval(fetchJobFromAPI, 10000) is armed (part_000:360)
  timers,     \* pending setTimeout(fetchJobFromAPI, ...) timers
  polls,      \* https.get(API_URL) requests whose response is not handled yet
  jobs,       \* the jobs accepted so far, in order of acceptance
  lastPoll,   \* how the poll handled last ended (observed in SpecPoll only)
  sock,       \* readyState of the socket the global `ws` refers to
  socketReady,\* the flag socketReady
  logQueue,   \* the array logQueue, as the numbers of the buffered sendLog calls
  sent,       \* the numbers of the sendLog calls handed to ws.send, in wire order
  logged,     \* number of sendLog calls made so far
  rtimers,    \* pending setTimeout(initWebSocket, 30000) timers
  dl,         \* one downloadJobZip call
  tree,       \* the directory tree findFlutterProjectRoot is called on
  result,     \* what findFlutterProjectRoot returned
  disk,       \* the files of one job identifier's workspace, and who wrote them
  tool,       \* one job's toolchain invocations
  unzip,      \* one extractZip call
  retry       \* one runWithRetry call

agentVars == <<agent, alive, interval, timers, polls, jobs>>
relayVars == <<sock, socketReady, logQueue, sent, logged, rtimers>>
dlVars == <<dl>>
findVars == <<tree, result>>
diskVars == <<disk>>
toolVars == <<tool>>
unzipVars == <<unzip>>
retryVars == <<retry>>

\* what the poller and the pipeline never touch
others == <<relayVars, dlVars, findVars, diskVars, toolVars, unzipVars, retryVars>>

vars == <<agentVars, lastPoll, others>>

----------------------------------------------------------------------------
\* Bounds of the model.

\* jobs accepted in one run
MaxJobs == 2
\* poll requests in flight at once
MaxPolls == 1
\* pending setTimeout poll timers at once
MaxTimers == 2

----------------------------------------------------------------------------
\* Values.

NULL == "null"

Agents == {"index", "part000"}

\* the three signing files looked up in the project root
SigningFiles == {"signing.p12", "profile.mobileprovision", "password.txt"}

\* HTTP status of the poll response
StatusCodes == {200, 500}

\* the poll response body: valid says whether JSON.parse accepts it. A body
\* that does not parse has no keys, and the optional keys are drawn only for
\* the objects that carry both job_id and zip_url (nothing reads them otherwise).
Bodies ==
  {b \in [valid : BOOLEAN, job_id : {NULL, "abc"}, zip_url : {NULL, "zip"},
          build_mode : {NULL, "simulator", "release"}, webhook_url : {NULL, "hook"}] :
     /\ ~b.valid => b.job_id = NULL /\ b.zip_url = NULL
     /\ (b.job_id = NULL \/ b.zip_url = NULL) => b.build_mode = NULL /\ b.webhook_url = NULL}

\* the URL uploadToGoogleDrive returns on success
PublicUrl == "publicUrl"

\* the literal runFlutterBuild reports as output_url
LocalOnly == "local-only"

----------------------------------------------------------------------------
\* Helpers.

\* setTimeout(fetchJobFromAPI, ...): one more pending timer, up to the bound
AddTimer(t) == IF t < MaxTimers THEN t + 1 ELSE t

\* mutant of BuildModeOf: the default of an absent build_mode is dropped
BuildModeOf_NoDefault(build_mode) == build_mode

\* job.build_mode || "simulator"
BuildModeOf(build_mode) == IF build_mode = NULL THEN "simulator" ELSE build_mode

\* !job.job_id || !job.zip_url
NoJob(body) == body.job_id = NULL \/ body.zip_url = NULL

\* err.message of each failing stage, and the fixed messages of the code
ErrMsg(failure) ==
  CASE failure = "download" -> "Download failed"
    [] failure = "extract"  -> "extract error"
    [] failure = "noroot"   -> "pubspec.yaml not found"
    [] failure = "pubget"   -> "pub get error"
    [] failure = "signing"  -> "signing error"
    [] failure = "build"    -> "build error"
    [] failure = "artifact" -> "Runner.app not found"
    [] OTHER                -> NULL

\* err.message of a rejected fetch(RESULT_URL)
FetchFailed == "fetch failed"

\* the job record fetchJobFromAPI's closure holds once a job is accepted:
\* the workspace is reset and downloadJobZip is awaited
NewJob(body) ==
  [build_mode  |-> body.build_mode,
   webhook_url |-> body.webhook_url,
   files       |-> {},
   pc          |-> "download",
   ctx         |-> NULL,
   trace       |-> <<"workspace", "download">>,
   failure     |-> "none",
   reports     |-> <<>>,
   threw       |-> 0]

\* reportResult(job_id, status, outputUrl, webhookUrl, errorMessage) is called:
\* the body is built and fetch(RESULT_URL) is awaited. ctx is the call site:
\* "try" (awaited inside fetchJobFromAPI's try), "catch" (awaited inside the
\* catch's own try/catch) or "detached" (not awaited, or awaited in an exec
\* callback whose promise nobody observes).
StartReport(job, status, outputUrl, errorMessage, ctx) ==
  [job EXCEPT !.pc = "report_coord", !.ctx = ctx,
              !.reports = Append(@, [status |-> status, output_url |-> outputUrl,
                                     error |-> errorMessage]),
              !.trace = Append(@, "report")]

\* the job has reached the end of its last continuation
Finish(job) == [job EXCEPT !.pc = "done", !.ctx = NULL]

InProgress(job) == job.pc # "done"

----------------------------------------------------------------------------
\* The build strategy and the build callbacks, as functions of the job record.

\* mutant of HasSigning: only the certificate is looked for
HasSigning_CertOnly(files) == "signing.p12" \in files

\* fs.existsSync(certPath) && fs.existsSync(profilePath) && fs.existsSync(passPath)
HasSigning(files) ==
  /\ "signing.p12" \in files
  /\ "profile.mobileprovision" \in files
  /\ "password.txt" \in files

\* the three execSync calls of the signing import; importFail names the one
\* that throws, or "none"
ImportSteps == {"none", "security import", "mkdir", "cp profile"}

\* runFlutterSimulatorBuild up to its exec call
StartSimulatorBuild(job) ==
  [job EXCEPT !.pc = "build_sim", !.trace = Append(@, "build_sim")]

\* runFlutterBuild up to its exec call
StartReleaseBuild(job) ==
  [job EXCEPT !.pc = "build_release", !.trace = Append(@, "build_release")]

\* mutant of SignAndBuild: a failed signing import falls back to the
\* simulator build
SignAndBuild_FallbackOnImportFailure(job, files, importFail) ==
  IF job.build_mode \in {NULL, "simulator"}
  THEN StartSimulatorBuild(job)
  ELSE LET j1 == [job EXCEPT !.files = files, !.trace = Append(@, "inspect")] IN
       IF files # SigningFiles
       THEN StartSimulatorBuild(j1)
       ELSE LET j2 == [j1 EXCEPT !.trace = Append(@, "import"),
                                 !.failure = IF importFail = "none" THEN @ ELSE "signing"] IN
            IF importFail = "none"
            THEN StartReleaseBuild(j2)
            ELSE StartSimulatorBuild(j2)

\* signAndBuild(projectRoot, outputFile, job_id, buildMode, webhookUrl) with
\* the project root holding `files`; the job records the files once the
\* existsSync calls have looked at them, and a failed import as its failure
SignAndBuild(job, files, importFail) ==
  IF BuildModeOf(job.build_mode) = "simulator"
  THEN StartSimulatorBuild(job)
  ELSE LET j1 == [job EXCEPT !.files = files, !.trace = Append(@, "inspect")] IN
       IF ~HasSigning(files)
       THEN StartSimulatorBuild(j1)
       ELSE LET j2 == [j1 EXCEPT !.trace = Append(@, "import"),
                                 !.failure = IF importFail = "none" THEN @ ELSE "signing"] IN
            IF importFail = "none"
            THEN StartReleaseBuild(j2)
            ELSE StartReport(j2, "failed", NULL, ErrMsg("signing"), "detached")

\* what an exec callback of a build is handed: err, and whether Runner.app
\* exists at its fixed path (looked at only when err is null)
BuildFailure(err, exists, failure) ==
  IF err THEN "build" ELSE IF ~exists THEN "artifact" ELSE failure

\* mutant of ReleaseBuildDone: the exit status of the build is trusted and
\* the product is not looked for
ReleaseBuildDone_TrustExit(job, err, exists) ==
  LET j0 == [job EXCEPT !.failure = BuildFailure(err, exists, @)] IN
  IF err
  THEN StartReport(j0, "failed", NULL, ErrMsg("build"), "detached")
  ELSE StartReport([j0 EXCEPT !.trace = Append(@, "copy")], "success",
                   LocalOnly, NULL, "detached")

\* mutant of ReleaseBuildDone: the missing product is reported without a
\* message
ReleaseBuildDone_NoMessage(job, err, exists) ==
  LET j0 == [job EXCEPT !.failure = BuildFailure(err, exists, @)] IN
  IF err
  THEN StartReport(j0, "failed", NULL, ErrMsg("build"), "detached")
  ELSE IF exists
       THEN StartReport([j0 EXCEPT !.trace = Append(@, "copy")], "success",
                        LocalOnly, NULL, "detached")
       ELSE StartReport(j0, "failed", NULL, NULL, "detached")

\* the exec callback of runFlutterBuild
ReleaseBuildDone(job, err, exists) ==
  LET j0 == [job EXCEPT !.failure = BuildFailure(err, exists, @)] IN
  IF err
  THEN StartReport(j0, "failed", NULL, ErrMsg("build"), "detached")
  ELSE IF exists
       THEN StartReport([j0 EXCEPT !.trace = Append(@, "copy")], "success",
                        LocalOnly, NULL, "detached")
       ELSE StartReport(j0, "failed", NULL, ErrMsg("artifact"), "detached")

\* mutant of SimulatorBuildDone: the exit status of the build is not looked
\* at before the product is copied and published
SimulatorBuildDone_PublishAnyway(job, err, exists) ==
  LET j0 == [job EXCEPT !.failure = BuildFailure(err, exists, @)] IN
  IF exists
  THEN [j0 EXCEPT !.pc = "publish", !.trace = @ \o <<"copy", "publish">>]
  ELSE StartReport(j0, "failed", NULL, ErrMsg("artifact"), "detached")

\* the exec callback of runFlutterSimulatorBuild, up to its await of
\* uploadToGoogleDrive or of reportResult
SimulatorBuildDone(job, err, exists) ==
  LET j0 == [job EXCEPT !.failure = BuildFailure(err, exists, @)] IN
  IF err
  THEN StartReport(j0, "failed", NULL, ErrMsg("build"), "detached")
  ELSE IF exists
       THEN [j0 EXCEPT !.pc = "publish", !.trace = @ \o <<"copy", "publish">>]
       ELSE StartReport(j0, "failed", NULL, ErrMsg("artifact"), "detached")

\* uploadToGoogleDrive has settled (it catches its errors and returns null) and
\* runFlutterSimulatorBuild's callback goes on to reportResult
UploadDone(job, ok) ==
  LET j0 == [job EXCEPT !.failure = IF ok THEN @ ELSE "publish"] IN
  StartReport(j0, "success", IF ok THEN PublicUrl ELSE NULL, NULL, "detached")

\* reportResult after its await of fetch(RESULT_URL): "webhook" (goes on to the
\* webhook delivery), "returns" or "throws"
CoordOutcome(ag, ok, webhookUrl) ==
  IF ag = "index" /\ ~ok
  THEN "throws"
  ELSE IF webhookUrl # NULL THEN "webhook" ELSE "returns"

\* reportResult after its await of fetch(webhookUrl). In part_000 both the try
\* and the catch read the undeclared name jobId, a ReferenceError that leaves
\* the catch.
HookOutcome(ag, ok) ==
  IF ag = "part000" THEN "throws" ELSE "returns"

----------------------------------------------------------------------------
\* Each specification below runs one component; the variables of the other
\* components keep these values throughout.

\* no response: no status, nothing to parse
NoBody ==
  [valid |-> FALSE, job_id |-> NULL, zip_url |-> NULL,
   build_mode |-> NULL, webhook_url |-> NULL]

PollUnobserved == lastPoll = [kind |-> "off", status |-> 0, body |-> NoBody]

\* the ways a poll can end: the request's "error" event, or a response
TransportError == [kind |-> "error", status |-> 0, body |-> NoBody]

Response(status, body) == [kind |-> "end", status |-> status, body |-> body]

\* lastPoll is a history variable: it records the way the poll handled last
\* ended, in the specifications whose initial state switches it on
Observe(p) == lastPoll' = IF lastPoll.kind = "off" THEN lastPoll ELSE p

RelayOff ==
  /\ sock = NULL /\ socketReady = NULL /\ logQueue = NULL
  /\ sent = NULL /\ logged = NULL /\ rtimers = NULL

DownloadOff == dl = NULL

FindOff == tree = NULL /\ result = NULL

WorkspaceOff == disk = NULL

ToolchainOff == tool = NULL

ExtractOff == unzip = NULL

RetryOff == retry = NULL

----------------------------------------------------------------------------
\* Initial state: the module top level has run.

\* index.js: setTimeout(() => fetchJobFromAPI(), 1000) and nothing else.
\* part_000: setInterval(fetchJobFromAPI, 10000) and a first fetchJobFromAPI().
Init ==
  /\ agent \in Agents
  /\ alive = TRUE
  /\ interval = (agent = "part000")
  /\ timers = IF agent = "index" THEN 1 ELSE 0
  /\ polls = IF agent = "part000" THEN 1 ELSE 0
  /\ jobs = <<>>
  /\ PollUnobserved /\ RelayOff /\ DownloadOff /\ FindOff
  /\ WorkspaceOff /\ ToolchainOff /\ ExtractOff /\ RetryOff

----------------------------------------------------------------------------
\* The poll loop.

\* a setTimeout(fetchJobFromAPI) timer fires: https.get(API_URL) is issued
TimerFires ==
  /\ alive /\ timers > 0 /\ polls < MaxPolls
  /\ timers' = timers - 1
  /\ polls' = polls + 1
  /\ UNCHANGED <<agent, alive, interval, jobs, lastPoll, others>>

\* the setInterval timer fires: https.get(API_URL) is issued
IntervalTick ==
  /\ alive /\ interval /\ polls < MaxPolls
  /\ polls' = polls + 1
  /\ UNCHANGED <<agent, alive, interval, timers, jobs, lastPoll, others>>

\* the request's "error" event
PollError ==
  /\ alive /\ polls > 0
  /\ polls' = polls - 1
  /\ timers' = IF agent = "part000" THEN AddTimer(timers) ELSE timers
  /\ Observe(TransportError)
  /\ UNCHANGED <<agent, alive, interval, jobs, others>>

\* the response's "end" handler, up to its first await
OnPollEnd(status, body) ==
  /\ alive /\ polls > 0
  /\ polls' = polls - 1
  /\ IF agent = "part000" /\ status # 200
     THEN /\ timers' = AddTimer(timers)
          /\ jobs' = jobs
     ELSE IF ~body.valid \/ NoJob(body)
          THEN /\ timers' = IF agent = "part000" THEN AddTimer(timers) ELSE timers
               /\ jobs' = jobs
          ELSE /\ Len(jobs) < MaxJobs
               /\ jobs' = Append(jobs, NewJob(body))
               /\ timers' = timers
  /\ Observe(Response(status, body))
  /\ UNCHANGED <<agent, alive, interval, others>>

----------------------------------------------------------------------------
\* One job's pipeline. j is the job's index in jobs.

\* the catch of fetchJobFromAPI's try, for an error of the stage `failure`
Catch(j, failure) ==
  LET job == [jobs[j] EXCEPT !.failure = failure] IN
  IF agent = "index"
  THEN /\ jobs' = [jobs EXCEPT ![j] = StartReport(job, "failed", NULL, ErrMsg(failure), "catch")]
       /\ timers' = timers
  ELSE /\ jobs' = [jobs EXCEPT ![j] = Finish(job)]
       /\ timers' = AddTimer(timers)

\* downloadJobZip settles
DownloadDone(j, ok) ==
  /\ alive /\ jobs[j].pc = "download"
  /\ IF ok
     THEN /\ jobs' = [jobs EXCEPT ![j].pc = "extract", ![j].trace = Append(@, "extract")]
          /\ timers' = timers
     ELSE Catch(j, "download")
  /\ UNCHANGED <<agent, alive, interval, polls, lastPoll, others>>

\* extractZip settles; on success findFlutterProjectRoot runs and either
\* "flutter pub get" is started or the missing project is reported
ExtractDone(j, ok, found) ==
  /\ alive /\ jobs[j].pc = "extract"
  /\ IF ~ok
     THEN Catch(j, "extract")
     ELSE LET job == [jobs[j] EXCEPT !.trace = Append(@, "findroot")] IN
          /\ timers' = timers
          /\ IF found
             THEN jobs' = [jobs EXCEPT ![j] = [job EXCEPT !.pc = "pubget", !.trace = Append(@, "pubget")]]
             ELSE jobs' = [jobs EXCEPT ![j] =
                    StartReport([job EXCEPT !.failure = "noroot"], "failed", NULL,
                                ErrMsg("noroot"), "try")]
  /\ UNCHANGED <<agent, alive, interval, polls, lastPoll, others>>

\* the exec callback of "flutter pub get": report the failure, or signAndBuild
PubGetDone(j, err, files, importFail) ==
  /\ alive /\ jobs[j].pc = "pubget"
  /\ IF err
     THEN /\ jobs' = [jobs EXCEPT ![j] =
                StartReport([jobs[j] EXCEPT !.failure = "pubget"], "failed", NULL,
                            ErrMsg("pubget"), "detached")]
          /\ timers' = IF agent = "part000" THEN AddTimer(timers) ELSE timers
     ELSE /\ jobs' = [jobs EXCEPT ![j] = SignAndBuild(jobs[j], files, importFail)]
          /\ timers' = timers
  /\ UNCHANGED <<agent, alive, interval, polls, lastPoll, others>>

\* the exec callback of "flutter build ios --release"
OnReleaseBuild(j, err, exists) ==
  /\ alive /\ jobs[j].pc = "build_release"
  /\ jobs' = [jobs EXCEPT ![j] = ReleaseBuildDone(jobs[j], err, exists)]
  /\ UNCHANGED <<agent, alive, interval, timers, polls, lastPoll, others>>

\* the exec callback of "flutter build ios --simulator"
OnSimulatorBuild(j, err, exists) ==
  /\ alive /\ jobs[j].pc = "build_sim"
  /\ jobs' = [jobs EXCEPT ![j] = SimulatorBuildDone(jobs[j], err, exists)]
  /\ UNCHANGED <<agent, alive, interval, timers, polls, lastPoll, others>>

\* uploadToGoogleDrive settles
OnUpload(j, ok) ==
  /\ alive /\ jobs[j].pc = "publish"
  /\ jobs' = [jobs EXCEPT ![j] = UploadDone(jobs[j], ok)]
  /\ UNCHANGED <<agent, alive, interval, timers, polls, lastPoll, others>>

\* reportResult has returned or thrown: its caller goes on
Settle(j, job, outcome, msg) ==
  IF outcome = "returns"
  THEN /\ jobs' = [jobs EXCEPT ![j] = Finish(job)]
       /\ timers' = IF agent = "part000" /\ job.ctx = "try" THEN AddTimer(timers) ELSE timers
       /\ alive' = alive
  ELSE LET thrown == [job EXCEPT !.threw = @ + 1] IN
       CASE job.ctx = "try" ->
              IF agent = "index"
              THEN /\ jobs' = [jobs EXCEPT ![j] = StartReport(thrown, "failed", NULL, msg, "catch")]
                   /\ timers' = timers
                   /\ alive' = alive
              ELSE /\ jobs' = [jobs EXCEPT ![j] = Finish(thrown)]
                   /\ timers' = AddTimer(timers)
                   /\ alive' = alive
         [] job.ctx = "catch" ->
              /\ jobs' = [jobs EXCEPT ![j] = Finish(thrown)]
              /\ timers' = timers
              /\ alive' = alive
         [] OTHER ->
              \* an unhandled promise rejection: the process goes on or exits,
              \* as the runtime's unhandled-rejections mode decides
              /\ jobs' = [jobs EXCEPT ![j] = Finish(thrown)]
              /\ timers' = timers
              /\ alive' \in BOOLEAN

\* reportResult's await of fetch(RESULT_URL) settles
CoordDelivered(j, ok) ==
  /\ alive /\ jobs[j].pc = "report_coord"
  /\ LET outcome == CoordOutcome(agent, ok, jobs[j].webhook_url) IN
     IF outcome = "webhook"
     THEN /\ jobs' = [jobs EXCEPT ![j].pc = "report_hook"]
          /\ UNCHANGED <<timers, alive>>
     ELSE Settle(j, jobs[j], outcome, FetchFailed)
  /\ UNCHANGED <<agent, interval, polls, lastPoll, others>>

\* reportResult's await of fetch(webhookUrl) settles
HookDelivered(j, ok) ==
  /\ alive /\ jobs[j].pc = "report_hook"
  /\ Settle(j, jobs[j], HookOutcome(agent, ok), "jobId is not defined")
  /\ UNCHANGED <<agent, interval, polls, lastPoll, others>>

----------------------------------------------------------------------------

Next ==
  \/ TimerFires
  \/ IntervalTick
  \/ PollError
  \/ \E status \in StatusCodes, body \in Bodies : OnPollEnd(status, body)
  \/ \E j \in 1..Len(jobs), ok \in BOOLEAN : DownloadDone(j, ok)
  \/ \E j \in 1..Len(jobs), ok \in BOOLEAN, found \in BOOLEAN : ExtractDone(j, ok, found)
  \/ \E j \in 1..Len(jobs), err \in BOOLEAN, files \in SUBSET SigningFiles,
        importFail \in ImportSteps : PubGetDone(j, err, files, importFail)
  \/ \E j \in 1..Len(jobs), err \in BOOLEAN, exists \in BOOLEAN : OnReleaseBuild(j, err, exists)
  \/ \E j \in 1..Len(jobs), err \in BOOLEAN, exists \in BOOLEAN : OnSimulatorBuild(j, err, exists)
  \/ \E j \in 1..Len(jobs), ok \in BOOLEAN : OnUpload(j, ok)
  \/ \E j \in 1..Len(jobs), ok \in BOOLEAN : CoordDelivered(j, ok)
  \/ \E j \in 1..Len(jobs), ok \in BOOLEAN : HookDelivered(j, ok)

Spec == Init /\ [][Next]_vars

TypeOK ==
  /\ agent \in Agents
  /\ alive \in BOOLEAN
  /\ interval \in BOOLEAN
  /\ timers \in 0..MaxTimers
  /\ polls \in 0..MaxPolls
  /\ Len(jobs) <= MaxJobs

----------------------------------------------------------------------------
\* The poller with the outcome of each poll on record. The accepted jobs stay
\* at their first await: what the poll handler does within its own step is all
\* this specification is about.

\* no poll has been handled yet
NoPoll == [kind |-> "none", status |-> 0, body |-> NoBody]

PollInit ==
  /\ agent \in Agents
  /\ alive = TRUE
  /\ interval = (agent = "part000")
  /\ timers = IF agent = "index" THEN 1 ELSE 0
  /\ polls = IF agent = "part000" THEN 1 ELSE 0
  /\ jobs = <<>>
  /\ lastPoll = NoPoll
  /\ RelayOff /\ DownloadOff /\ FindOff
  /\ WorkspaceOff /\ ToolchainOff /\ ExtractOff /\ RetryOff

NextPoll ==
  \/ TimerFires
  \/ IntervalTick
  \/ PollError
  \/ \E status \in StatusCodes, body \in Bodies : OnPollEnd(status, body)

SpecPoll == PollInit /\ [][NextPoll]_vars

----------------------------------------------------------------------------
\* The log relay: initWebSocket, the socket's event handlers and sendLog.
\* A sendLog call is identified by its number in call order; an entry of
\* `sent` also tells whether the message went through logQueue.

MaxLogs == 4

\* the poller is not run in the specifications of the other components
PollerOff ==
  /\ alive = TRUE /\ interval = FALSE /\ timers = 0 /\ polls = 0 /\ jobs = <<>>

\* one payload, as handed to ws.send
Direct(n) == [id |-> n, buffered |-> FALSE]

Buffered(n) == [id |-> n, buffered |-> TRUE]

CanSend_FlagOnly(ready, readyState) == ready

\* sendLog's test before it sends
CanSend(ready, readyState) == ready /\ readyState = "open"

\* sendLog(msg) as call number n, on the relay state
\* st = [sent, queue]: ws.send now, or logQueue.push
SendLogTo(st, ready, readyState, n) ==
  IF CanSend(ready, readyState)
  THEN [st EXCEPT !.sent = Append(@, Direct(n))]
  ELSE [st EXCEPT !.queue = Append(@, n)]

FlushOrder_Reversed(q) ==
  [i \in 1..Len(q) |-> Buffered(q[Len(q) + 1 - i])]

\* logQueue.forEach(payload => ws.send(...)): the payloads in array order
FlushOrder(q) ==
  [i \in 1..Len(q) |-> Buffered(q[i])]

QueueAfterFlush_Kept(q) == q

\* logQueue = [] after the forEach
QueueAfterFlush(q) == <<>>

\* the "open" handler's flush of logQueue
FlushQueue(st) ==
  [sent |-> st.sent \o FlushOrder(st.queue), queue |-> QueueAfterFlush(st.queue)]

\* initWebSocket() at module load (index.js:62, part_000:166)
RelayInit ==
  /\ agent \in Agents
  /\ sock = "connecting"
  /\ socketReady = FALSE
  /\ logQueue = <<>>
  /\ sent = <<>>
  /\ logged = 0
  /\ rtimers = 0
  /\ PollerOff /\ PollUnobserved /\ DownloadOff /\ FindOff
  /\ WorkspaceOff /\ ToolchainOff /\ ExtractOff /\ RetryOff

\* a call of sendLog from anywhere in the agent
SendLog ==
  /\ logged < MaxLogs
  /\ LET st == SendLogTo([sent |-> sent, queue |-> logQueue], socketReady, sock, logged + 1) IN
       /\ sent' = st.sent
       /\ logQueue' = st.queue
  /\ logged' = logged + 1
  /\ UNCHANGED <<sock, socketReady, rtimers, agentVars, lastPoll, dlVars, findVars, diskVars, toolVars, unzipVars, retryVars>>

\* ws.on("open"): socketReady = true, flush, logQueue = [], sendLog("Connected ...")
OnOpen ==
  /\ sock = "connecting" /\ logged < MaxLogs
  /\ sock' = "open"
  /\ socketReady' = TRUE
  /\ LET st == SendLogTo(FlushQueue([sent |-> sent, queue |-> logQueue]),
                         TRUE, "open", logged + 1) IN
       /\ sent' = st.sent
       /\ logQueue' = st.queue
  /\ logged' = logged + 1
  /\ UNCHANGED <<rtimers, agentVars, lastPoll, dlVars, findVars, diskVars, toolVars, unzipVars, retryVars>>

\* ws.on("error"): the socket is on its way to closed; part_000 resets
\* socketReady, index.js only logs to the console
OnError ==
  /\ sock \in {"connecting", "open"}
  /\ sock' = "closing"
  /\ socketReady' = IF agent = "part000" THEN FALSE ELSE socketReady
  /\ UNCHANGED <<logQueue, sent, logged, rtimers, agentVars, lastPoll, dlVars, findVars, diskVars, toolVars, unzipVars, retryVars>>

\* the socket's "close" event: part_000 resets socketReady and arms
\* setTimeout(initWebSocket, 30000); index.js registers no handler
OnClose ==
  /\ sock \in {"open", "closing"}
  /\ sock' = "closed"
  /\ IF agent = "part000"
     THEN socketReady' = FALSE /\ rtimers' = rtimers + 1
     ELSE UNCHANGED <<socketReady, rtimers>>
  /\ UNCHANGED <<logQueue, sent, logged, agentVars, lastPoll, dlVars, findVars, diskVars, toolVars, unzipVars, retryVars>>

\* the reconnect timer fires: initWebSocket() assigns a new socket to ws
ReconnectTimer ==
  /\ rtimers > 0
  /\ rtimers' = rtimers - 1
  /\ sock' = "connecting"
  /\ UNCHANGED <<socketReady, logQueue, sent, logged, agentVars, lastPoll, dlVars, findVars, diskVars, toolVars, unzipVars, retryVars>>

NextRelay ==
  \/ SendLog
  \/ OnOpen
  \/ OnError
  \/ OnClose
  \/ ReconnectTimer

SpecRelay == RelayInit /\ [][NextRelay]_vars

----------------------------------------------------------------------------
\* downloadJobZip(url, destPath, jobId): one call, from the first request to
\* the settling of its promise.

MaxHops == 3

\* absolute URLs a job or a Location header may name
Urls == {"http://a", "https://a", "https://b"}

\* the Location header of a response: absent, an absolute URL or a path
Locations == Urls \cup {NULL, "/a"}

\* res.statusCode of the zip host
DownloadStatuses == {200, 301, 302, 303, 307, 404}

\* url.startsWith("https")
StartsWithHttps(u) == u \in {"https://a", "https://b"}

\* const client = url.startsWith("https") ? https : http
ClientFor(u) == IF StartsWithHttps(u) THEN "https" ELSE "http"

\* client.get(u) issues a request: http.get and https.get throw
\* ERR_INVALID_PROTOCOL for a URL of the other scheme and ERR_INVALID_URL
\* for a string that is no absolute URL
Accepts(client, u) ==
  \/ client = "https" /\ StartsWithHttps(u)
  \/ client = "http" /\ u = "http://a"

\* [301, 302, 303].includes(res.statusCode)
IsRedirect(status) == status \in {301, 302, 303}

\* requestAndFollow(u) called from the response callback: the request is
\* issued, or client.get throws inside the callback and the promise is never
\* settled (an uncaught exception)
RequestAndFollow(d, u) ==
  IF Accepts(d.client, u)
  THEN [d EXCEPT !.url = u, !.hops = IF @ < MaxHops THEN @ + 1 ELSE @]
  ELSE [d EXCEPT !.state = "crashed", !.error = "client.get threw"]

\* the response callback of client.get
HandleResponse(d, status, location) ==
  LET seen == [d EXCEPT !.last = [status |-> status, location |-> location]] IN
  IF IsRedirect(status)
  THEN IF location = NULL
       THEN [seen EXCEPT !.state = "rejected", !.error = "Redirect with no location header"]
       ELSE RequestAndFollow(seen, location)
  ELSE IF status # 200
       THEN [seen EXCEPT !.state = "rejected", !.error = "Download failed"]
       ELSE [seen EXCEPT !.state = "piping"]

\* downloadJobZip is called: the client is chosen and requestAndFollow(url) runs
DownloadInit ==
  /\ \E u \in Urls :
       dl = [client |-> ClientFor(u), url |-> u, hops |-> 0, state |-> "requesting",
             error |-> NULL, last |-> [status |-> 0, location |-> NULL]]
  /\ agent \in Agents
  /\ PollerOff /\ PollUnobserved /\ RelayOff /\ FindOff
  /\ WorkspaceOff /\ ToolchainOff /\ ExtractOff /\ RetryOff

\* a response arrives for the request in flight
OnResponse(status, location) ==
  /\ dl.state = "requesting"
  /\ dl' = HandleResponse(dl, status, location)
  /\ UNCHANGED <<agentVars, lastPoll, relayVars, findVars, diskVars, toolVars, unzipVars, retryVars>>

\* req.on("error", reject)
OnRequestError ==
  /\ dl.state = "requesting"
  /\ dl' = [dl EXCEPT !.state = "rejected", !.error = "request error"]
  /\ UNCHANGED <<agentVars, lastPoll, relayVars, findVars, diskVars, toolVars, unzipVars, retryVars>>

\* file.on("finish", () => file.close(resolve))
OnFinish ==
  /\ dl.state = "piping"
  /\ dl' = [dl EXCEPT !.state = "resolved"]
  /\ UNCHANGED <<agentVars, lastPoll, relayVars, findVars, diskVars, toolVars, unzipVars, retryVars>>

NextDownload ==
  \/ \E status \in DownloadStatuses, location \in Locations : OnResponse(status, location)
  \/ OnRequestError
  \/ OnFinish

SpecDownload == DownloadInit /\ [][NextDownload]_vars

----------------------------------------------------------------------------
\* findFlutterProjectRoot(startPath) on a directory tree. The entries of the
\* tree are numbered 2..MaxNodes, entry 1 is startPath; an entry's parent has
\* a smaller number, and readdirSync lists a directory's entries by number.

MaxNodes == 5

\* the return value null
NoRoot == 0

Entry == 2..MaxNodes

\* every entry lies in startPath or in an entry that is a directory, and a
\* directory holds at most one entry of a name
Trees ==
  LET Parents == {p \in [Entry -> 1..(MaxNodes - 1)] : \A n \in Entry : p[n] < n} IN
  {t \in [parent : Parents,
          kind : [Entry -> {"dir", "file"}],
          name : [Entry -> {"pubspec.yaml", "other"}]] :
     /\ \A n \in Entry : t.parent[n] = 1 \/ t.kind[t.parent[n]] = "dir"
     /\ \A m, n \in Entry :
          (m # n /\ t.parent[m] = t.parent[n]) =>
            ~(t.name[m] = "pubspec.yaml" /\ t.name[n] = "pubspec.yaml")}

\* the entries of directory d
ChildrenOf(t, d) == {n \in Entry : t.parent[n] = d}

Entries_Reversed(t, d) ==
  LET S == ChildrenOf(t, d) IN
  CHOOSE f \in [1..Cardinality(S) -> S] :
    \A i, k \in 1..Cardinality(S) : i < k => f[i] > f[k]

\* fs.readdirSync(startPath): the entries in listing order
Entries(t, d) ==
  LET S == ChildrenOf(t, d) IN
  CHOOSE f \in [1..Cardinality(S) -> S] :
    \A i, k \in 1..Cardinality(S) : i < k => f[i] < f[k]

\* entries.includes("pubspec.yaml")
IncludesPubspec(t, es) == \E i \in 1..Len(es) : t.name[es[i]] = "pubspec.yaml"

RECURSIVE findFlutterProjectRoot(_, _)
RECURSIVE SearchEntries(_, _)

\* the for loop over the entries es still to visit
SearchEntries(t, es) ==
  IF es = <<>>
  THEN NoRoot
  ELSE IF t.kind[Head(es)] = "dir"
       THEN LET found == findFlutterProjectRoot(t, Head(es)) IN
            IF found # NoRoot THEN found ELSE SearchEntries(t, Tail(es))
       ELSE SearchEntries(t, Tail(es))

findFlutterProjectRoot(t, d) ==
  LET entries == Entries(t, d) IN
  IF IncludesPubspec(t, entries) THEN d ELSE SearchEntries(t, entries)

FindInit ==
  /\ tree \in Trees
  /\ result = [done |-> FALSE, root |-> NoRoot]
  /\ agent \in Agents
  /\ PollerOff /\ PollUnobserved /\ RelayOff /\ DownloadOff
  /\ WorkspaceOff /\ ToolchainOff /\ ExtractOff /\ RetryOff

\* const projectRoot = findFlutterProjectRoot(extractPath)
FindRun ==
  /\ ~result.done
  /\ result' = [done |-> TRUE, root |-> findFlutterProjectRoot(tree, 1)]
  /\ UNCHANGED <<tree, agentVars, lastPoll, relayVars, dlVars, diskVars, toolVars, unzipVars, retryVars>>

NextFind == FindRun

SpecFind == FindInit /\ [][NextFind]_vars

----------------------------------------------------------------------------
\* The workspace of one job identifier over successive jobs that carry it:
\* the archive TEMP_DIR/<id>.zip, the directory TEMP_DIR/<id> and the output
\* OUTPUT_DIR/<id>.app. Each file is tagged with the number of the job that
\* wrote it.

MaxRuns == 2

\* no such file
Absent == 0

\* names of the files an archive may hold
ArchiveNames == {"pubspec.yaml", "main.dart"}

\* names of the files a built Runner.app may hold
AppNames == {"Runner", "Info.plist"}

\* fs.rmSync(extractPath, { recursive: true, force: true });
\* fs.mkdirSync(extractPath, { recursive: true })
ResetExtractDir(d) == [d EXCEPT !.extract = [n \in ArchiveNames |-> Absent]]

\* fs.createWriteStream(destPath) of downloadJobZip: the archive is replaced
WriteArchive(d) == [d EXCEPT !.zip = d.run]

\* extractZip: each entry of the archive is written below extractPath
WriteEntries(d, names) ==
  [d EXCEPT !.extract = [n \in ArchiveNames |-> IF n \in names THEN d.run ELSE @[n]]]

\* fs.cpSync(appPath, outputFile, { recursive: true }): the files of the
\* product are copied into the output directory, what else is there stays
CopyProduct(d, names) ==
  [d EXCEPT !.output = [n \in AppNames |-> IF n \in names THEN d.run ELSE @[n]]]

\* the first job with the identifier is accepted: nothing on disk yet
WorkspaceInit ==
  /\ disk = [run |-> 1, pc |-> "download", zip |-> Absent,
             extract |-> [n \in ArchiveNames |-> Absent],
             output |-> [n \in AppNames |-> Absent]]
  /\ agent \in Agents
  /\ PollerOff /\ PollUnobserved /\ RelayOff /\ DownloadOff /\ FindOff
  /\ ToolchainOff /\ ExtractOff /\ RetryOff

\* downloadJobZip settles: the archive is written on a 200 response only
ArchiveDownloaded(ok) ==
  /\ disk.pc = "download"
  /\ disk' = IF ok THEN [WriteArchive(disk) EXCEPT !.pc = "extract"]
                   ELSE [disk EXCEPT !.pc = "done"]
  /\ UNCHANGED <<agentVars, lastPoll, relayVars, dlVars, findVars, toolVars, unzipVars, retryVars>>

\* extractZip settles
ArchiveExtracted(names) ==
  /\ disk.pc = "extract"
  /\ disk' = [WriteEntries(disk, names) EXCEPT !.pc = "build"]
  /\ UNCHANGED <<agentVars, lastPoll, relayVars, dlVars, findVars, toolVars, unzipVars, retryVars>>

\* the job ends before a product is copied (no project root, pub get, signing
\* or build failure, no Runner.app), or the build callback copies the product
BuildEnded(ok, names) ==
  /\ disk.pc = "build"
  /\ disk' = IF ok THEN [CopyProduct(disk, names) EXCEPT !.pc = "done"]
                   ELSE [disk EXCEPT !.pc = "done"]
  /\ UNCHANGED <<agentVars, lastPoll, relayVars, dlVars, findVars, toolVars, unzipVars, retryVars>>

\* a later poll returns a job with the same identifier: fetchJobFromAPI
\* resets the extraction directory and awaits downloadJobZip
SameIdAccepted ==
  /\ disk.pc = "done" /\ disk.run < MaxRuns
  /\ disk' = [ResetExtractDir(disk) EXCEPT !.run = @ + 1, !.pc = "download"]
  /\ UNCHANGED <<agentVars, lastPoll, relayVars, dlVars, findVars, toolVars, unzipVars, retryVars>>

NextWorkspace ==
  \/ \E ok \in BOOLEAN : ArchiveDownloaded(ok)
  \/ \E names \in SUBSET ArchiveNames : ArchiveExtracted(names)
  \/ \E ok \in BOOLEAN, names \in (SUBSET AppNames) \ {{}} : BuildEnded(ok, names)
  \/ SameIdAccepted

SpecWorkspace == WorkspaceInit /\ [][NextWorkspace]_vars

----------------------------------------------------------------------------
\* The toolchain invocations of one job: exec("flutter pub get"), the execSync
\* calls of the signing import, exec("flutter build ios ..."). Wall-clock
\* time is counted in ticks since the invocation started.

MaxTicks == 8

\* options.timeout of the exec and execSync calls: every call passes
\* { cwd: projectRoot } or no options, and child_process's default is 0
ExecTimeout == 0

\* child_process kills the child when a timeout greater than 0 has passed
TimedOut(elapsed) == ExecTimeout > 0 /\ elapsed >= ExecTimeout

\* what a job asks for: the build mode, and whether the signing files are there
ToolPlans == {"simulator", "release signed", "release unsigned"}

\* the invocation that follows a successful one, or "report"
StageAfter(stage, plan) ==
  CASE stage = "pubget" /\ plan = "release signed" -> "import"
    [] stage = "pubget" /\ plan # "release signed" -> "build_sim"
    [] stage = "import" -> "build_release"
    [] OTHER -> "report"

\* the callback (or the catch around execSync) of the invocation: an error
\* ends the job with a "failed" report, success starts the next invocation
Completed(t, err) ==
  IF err
  THEN [t EXCEPT !.stage = "report", !.proc = "none", !.status = "failed"]
  ELSE LET next == StageAfter(t.stage, t.plan) IN
       IF next = "report"
       THEN [t EXCEPT !.stage = "report", !.proc = "none", !.status = "success"]
       ELSE [t EXCEPT !.stage = next, !.proc = "running", !.elapsed = 0]

\* exec("flutter pub get", { cwd: projectRoot }, callback) has been called
ToolchainInit ==
  /\ \E plan \in ToolPlans :
       tool = [plan |-> plan, stage |-> "pubget", proc |-> "running",
               elapsed |-> 0, status |-> "none"]
  /\ agent \in Agents
  /\ PollerOff /\ PollUnobserved /\ RelayOff /\ DownloadOff /\ FindOff
  /\ WorkspaceOff /\ ExtractOff /\ RetryOff

\* the child process exits by itself
ToolExits(err) ==
  /\ tool.proc = "running"
  /\ tool' = Completed(tool, err)
  /\ UNCHANGED <<agentVars, lastPoll, relayVars, dlVars, findVars, diskVars, unzipVars, retryVars>>

\* the child process stops making progress: it will not exit by itself
ToolHangs ==
  /\ tool.proc = "running"
  /\ tool' = [tool EXCEPT !.proc = "hung"]
  /\ UNCHANGED <<agentVars, lastPoll, relayVars, dlVars, findVars, diskVars, unzipVars, retryVars>>

\* wall-clock time passes for the invocation; a child that has run for the
\* timeout is killed and the callback gets the error
Tick ==
  /\ tool.proc \in {"running", "hung"}
  /\ tool.elapsed < MaxTicks
  /\ LET t == [tool EXCEPT !.elapsed = @ + 1] IN
       tool' = IF TimedOut(t.elapsed) THEN Completed(t, TRUE) ELSE t
  /\ UNCHANGED <<agentVars, lastPoll, relayVars, dlVars, findVars, diskVars, unzipVars, retryVars>>

NextToolchain ==
  \/ \E err \in BOOLEAN : ToolExits(err)
  \/ ToolHangs
  \/ Tick

SpecToolchain == ToolchainInit /\ [][NextToolchain]_vars

----------------------------------------------------------------------------
\* extractZip(zipPath, destPath, jobId): the "entry" events of one archive,
\* in archive order. A path is the sequence of its segments.

MaxEntries == 3

\* destPath: TEMP_DIR/<job_id>
Dest == <<"temp", "job">>

\* entry.path of the entries an archive may hold; a leading "" segment is
\* the leading "/" of an absolute path
EntryPaths == {<<"a">>, <<"b">>, <<"a", "b">>, <<"a", "a">>, <<"..", "b">>, <<"", "b">>}

\* entry.type
EntryTypes == {"Directory", "File"}

RECURSIVE Normalize(_, _)
\* path.normalize: done is the normalized part, todo the segments still to
\* read; ".." drops the segment before it, an empty segment is skipped
Normalize(done, todo) ==
  IF todo = <<>>
  THEN done
  ELSE IF Head(todo) = ".."
       THEN Normalize(IF done = <<>> THEN done ELSE SubSeq(done, 1, Len(done) - 1), Tail(todo))
       ELSE IF Head(todo) = ""
            THEN Normalize(done, Tail(todo))
            ELSE Normalize(Append(done, Head(todo)), Tail(todo))

\* path.join(destPath, entry.path)
Join(dest, path) == Normalize(<<>>, dest \o path)

\* path.dirname(fullPath)
Dirname(path) == SubSeq(path, 1, Len(path) - 1)

\* fs.mkdirSync(p, { recursive: true }): p and every directory above it
MkdirRecursive(dirs, path) == dirs \cup {SubSeq(path, 1, n) : n \in 0..Len(path)}

DirsForFile_None(dirs, fullPath) == dirs

\* fs.mkdirSync(path.dirname(fullPath), { recursive: true })
DirsForFile(dirs, fullPath) == MkdirRecursive(dirs, Dirname(fullPath))

\* the "entry" handler on the file system fs = [dirs, files, orphan]: orphan
\* records a write stream created in a directory that does not exist
HandleEntry(fs, entry) ==
  LET fullPath == Join(Dest, entry.path) IN
  IF entry.type = "Directory"
  THEN [fs EXCEPT !.dirs = MkdirRecursive(@, fullPath)]
  ELSE LET dirs == DirsForFile(fs.dirs, fullPath) IN
       [fs EXCEPT !.dirs = dirs,
                  !.files = @ \cup {fullPath},
                  !.orphan = @ \/ Dirname(fullPath) \notin dirs]

\* the archives: up to MaxEntries entries in any order, no two at one place,
\* and no file at a place another entry lies below
Archives ==
  LET ZipEntries == [path : EntryPaths, type : EntryTypes]
      Below(p, q) == Len(p) < Len(q) /\ SubSeq(q, 1, Len(p)) = p IN
  {a \in UNION {[1..n -> ZipEntries] : n \in 0..MaxEntries} :
     \A i, k \in 1..Len(a) :
       i # k =>
         /\ Join(Dest, a[i].path) # Join(Dest, a[k].path)
         /\ a[i].type = "File" => ~Below(Join(Dest, a[i].path), Join(Dest, a[k].path))}

\* extractZip is called on an archive; fetchJobFromAPI has just recreated
\* destPath
ExtractInit ==
  /\ \E a \in Archives :
       unzip = [archive |-> a, next |-> 1,
                fs |-> [dirs |-> MkdirRecursive({}, Dest), files |-> {}, orphan |-> FALSE]]
  /\ agent \in Agents
  /\ PollerOff /\ PollUnobserved /\ RelayOff /\ DownloadOff /\ FindOff
  /\ WorkspaceOff /\ ToolchainOff /\ RetryOff

\* the parser emits the next entry
OnEntry ==
  /\ unzip.next <= Len(unzip.archive)
  /\ unzip' = [unzip EXCEPT !.fs = HandleEntry(@, unzip.archive[unzip.next]),
                            !.next = @ + 1]
  /\ UNCHANGED <<agentVars, lastPoll, relayVars, dlVars, findVars, diskVars, toolVars, retryVars>>

NextExtract == OnEntry

SpecExtract == ExtractInit /\ [][NextExtract]_vars

----------------------------------------------------------------------------
\* runWithRetry(taskFn, retries, onComplete) of part_002: the attempts of one
\* call. outcomes lists what the settled taskFn calls gave, completed the
\* arguments onComplete was called with.

MaxRetries == 5

\* what awaiting taskFn() gives: a truthy value, a falsy value, or an exception
TaskOutcomes == {"true", "false", "throws"}

ShouldRetry_OneMore(attempts, retries) == attempts <= retries + 1

\* else if (attempts <= retries)
ShouldRetry(attempts, retries) == attempts <= retries

\* onComplete(true)
OnSuccess(completed) == Append(completed, TRUE)

OnExhausted_Silent(completed) == completed

\* onComplete(false)
OnExhausted(completed) == Append(completed, FALSE)

\* runWithRetry has run: attempts is 0, then attempt() counts 1 and calls taskFn
RetryInit ==
  /\ \E n \in 0..MaxRetries :
       retry = [retries |-> n, attempts |-> 1, running |-> 1, timer |-> 0,
                outcomes |-> <<>>, completed |-> <<>>, threw |-> FALSE,
                overlap |-> FALSE]
  /\ agent \in Agents
  /\ PollerOff /\ PollUnobserved /\ RelayOff /\ DownloadOff /\ FindOff
  /\ WorkspaceOff /\ ToolchainOff /\ ExtractOff

\* await taskFn() settles and attempt() runs on to its end
TaskSettles(outcome) ==
  /\ retry.running > 0
  /\ retry' =
       LET r == [retry EXCEPT !.running = @ - 1, !.outcomes = Append(@, outcome)] IN
       CASE outcome = "throws" -> [r EXCEPT !.threw = TRUE]
         [] outcome = "true" -> [r EXCEPT !.completed = OnSuccess(@)]
         [] OTHER ->
              IF ShouldRetry(r.attempts, r.retries)
              THEN [r EXCEPT !.timer = @ + 1]
              ELSE [r EXCEPT !.completed = OnExhausted(@)]
  /\ UNCHANGED <<agentVars, lastPoll, relayVars, dlVars, findVars, diskVars, toolVars, unzipVars>>

\* setTimeout(attempt, 2000) fires: attempt() counts and calls taskFn
RetryTimerFires ==
  /\ retry.timer > 0
  /\ retry' = [retry EXCEPT !.timer = @ - 1,
                            !.attempts = @ + 1,
                            !.overlap = @ \/ retry.running > 0,
                            !.running = @ + 1]
  /\ UNCHANGED <<agentVars, lastPoll, relayVars, dlVars, findVars, diskVars, toolVars, unzipVars>>

NextRetry ==
  \/ \E outcome \in TaskOutcomes : TaskSettles(outcome)
  \/ RetryTimerFires

SpecRetry == RetryInit /\ [][NextRetry]_vars

----------------------------------------------------------------------------
\* Properties.

Jobs == 1..Len(jobs)

\* e occurs in the sequence s
Has(s, e) == \E i \in 1..Len(s) : s[i] = e

Started(job, stage) == Has(job.trace, stage)

\* a build command of either variant was started for the job
BuildStarted(job) == Started(job, "build_sim") \/ Started(job, "build_release")

\* signAndBuild has been called for the job
Selected(job) == Started(job, "pubget") /\ job.pc # "pubget" /\ job.failure # "pubget"

\* C1: at most one accepted job is in progress (between its acceptance and the
\* end of its pipeline) at any time.
C1_OneJobAtATime ==
  Cardinality({j \in Jobs : InProgress(jobs[j])}) <= 1

\* C2: reportResult is invoked at most once for each accepted job.
C2_ReportedAtMostOnce ==
  \A j \in Jobs : Len(jobs[j].reports) <= 1

\* C3: a job that ended after a stage failure (download, extraction, project
\* root, dependency install, signing, build, missing artifact) has a reported
\* result with status "failed" whose error is that failure's message.
C3_StageFailureReported ==
  \A j \in Jobs :
    (jobs[j].pc = "done" /\
     jobs[j].failure \in {"download", "extract", "noroot", "pubget", "signing", "build", "artifact"})
    => \E i \in 1..Len(jobs[j].reports) :
         /\ jobs[j].reports[i].status = "failed"
         /\ jobs[j].reports[i].error = ErrMsg(jobs[j].failure)

\* C4: a job whose signing import failed (release mode, all three signing files
\* present) has a result, every result of it is "failed", and no build command
\* of either variant was started for it.
C4_SigningFailureFailsWithoutBuild ==
  \A j \in Jobs :
    jobs[j].failure = "signing"
    => /\ jobs[j].build_mode = "release"
       /\ jobs[j].files = SigningFiles
       /\ ~BuildStarted(jobs[j])
       /\ Len(jobs[j].reports) >= 1
       /\ \A i \in 1..Len(jobs[j].reports) : jobs[j].reports[i].status = "failed"

C4_Witness ==
  \E j \in Jobs :
    /\ jobs[j].failure = "signing"
    /\ jobs[j].build_mode = "release"
    /\ jobs[j].files = SigningFiles
    /\ jobs[j].pc = "done"

C6_SimulatorModeSkipsSigning ==
  \A j \in Jobs :
    jobs[j].build_mode \in {NULL, "simulator"}
    => /\ ~Started(jobs[j], "inspect")
       /\ ~Started(jobs[j], "import")
       /\ ~Started(jobs[j], "build_release")
       /\ Selected(jobs[j]) => Started(jobs[j], "build_sim")

C6_Witness ==
  \E j \in Jobs :
    /\ jobs[j].build_mode = NULL
    /\ Started(jobs[j], "build_sim")
    /\ jobs[j].pc = "done"

\* C7: a result with status "success" is reported only for a job whose build
\* command exited successfully and whose Runner.app existed; a job whose build
\* exited successfully without the product is reported "failed" only.
C7_SuccessNeedsArtifact ==
  \A j \in Jobs :
    /\ (\E i \in 1..Len(jobs[j].reports) : jobs[j].reports[i].status = "success")
       => /\ BuildStarted(jobs[j])
          /\ jobs[j].failure \notin {"build", "artifact"}
          /\ Started(jobs[j], "copy")
    /\ jobs[j].failure = "artifact"
       => /\ Len(jobs[j].reports) >= 1
          /\ \A i \in 1..Len(jobs[j].reports) : jobs[j].reports[i].status = "failed"

C7_Witness ==
  \E j \in Jobs :
    /\ jobs[j].failure = "artifact"
    /\ Started(jobs[j], "build_release")
    /\ jobs[j].pc = "done"

\* C8: a job whose build succeeded and whose publication failed is reported
\* "failed" with a non-null error, never "success".
C8_PublishFailureReportedFailed ==
  \A j \in Jobs :
    jobs[j].failure = "publish"
    => \A i \in 1..Len(jobs[j].reports) :
         /\ jobs[j].reports[i].status = "failed"
         /\ jobs[j].reports[i].error # NULL

\* C9: a release job with all signing files whose steps all succeeded has gone
\* through signing import, release build and publication before its report,
\* and reports "success" with the publisher's URL as output_url.
C9_ReleaseSuccessPublishes ==
  \A j \in Jobs :
    (Started(jobs[j], "build_release") /\ jobs[j].failure = "none" /\ Len(jobs[j].reports) >= 1)
    => /\ Started(jobs[j], "import")
       /\ Started(jobs[j], "publish")
       /\ jobs[j].reports[1].status = "success"
       /\ jobs[j].reports[1].output_url = PublicUrl

\* C10: no call of reportResult propagates an error to its caller.
C10_ReportNeverThrows ==
  \A j \in Jobs : jobs[j].threw = 0

\* C11: the two sinks are decoupled: whenever reportResult's coordinator
\* delivery has settled (delivered or failed) for a job that carries a webhook
\* URL, the webhook delivery is attempted next.
C11_WebhookAttemptedRegardless ==
  [][\A j \in Jobs :
       (jobs[j].pc = "report_coord" /\ jobs[j].webhook_url # NULL /\ jobs'[j] # jobs[j])
         => jobs'[j].pc = "report_hook"]_vars

\* the numbers of the sendLog calls in `sent`, in wire order
SentIds == [i \in 1..Len(sent) |-> sent[i].id]

\* C12: the messages reach the socket in the order of their sendLog calls:
\* a message is never sent after one that was logged later.
C12_LogOrderPreserved ==
  \A i, k \in 1..Len(sent) : i < k => sent[i].id < sent[k].id

\* a message buffered during a disconnect went out between two direct ones
C12_Witness ==
  \E i, k, l \in 1..Len(sent) :
    /\ i < k /\ k < l
    /\ ~sent[i].buffered /\ sent[k].buffered /\ ~sent[l].buffered

\* C13: every message logged so far is either still buffered or was sent,
\* never both and never twice, and once the "open" handler has run no
\* message is left in the buffer.
C13_BufferedSentExactlyOnce ==
  /\ \A i, k \in 1..Len(sent) : i # k => sent[i].id # sent[k].id
  /\ \A i, k \in 1..Len(logQueue) : i # k => logQueue[i] # logQueue[k]
  /\ \A n \in 1..logged : Has(SentIds, n) # Has(logQueue, n)
  /\ \A i \in 1..Len(sent) : sent[i].id \in 1..logged
  /\ (sock = "open" => logQueue = <<>>)

\* two messages buffered during a disconnect that followed a first
\* connection have been flushed at the reconnect
C13_Witness ==
  /\ sock = "open" /\ logQueue = <<>>
  /\ \E i, k, l \in 1..Len(sent) :
       /\ i < k /\ k < l
       /\ ~sent[i].buffered /\ sent[k].buffered /\ sent[l].buffered

\* C14: once the socket is closed, a new connection attempt is scheduled.
C14_ReconnectScheduled ==
  sock = "closed" => rtimers > 0

\* this step is the handling of a poll's end
PollEnds == polls' < polls

\* a poll is armed: the interval runs or a setTimeout(fetchJobFromAPI) is pending
PollScheduled == alive /\ (interval \/ timers > 0)

\* the poll ended in a transport error, a status other than 200 or a body
\* that does not parse
FailedPoll(p) ==
  \/ p.kind = "error"
  \/ p.kind = "end" /\ (p.status # 200 \/ ~p.body.valid)

\* the poll's response parsed but lacks job_id or zip_url
EmptyPoll(p) ==
  /\ p.kind = "end" /\ p.body.valid
  /\ (p.body.job_id = NULL \/ p.body.zip_url = NULL)

\* C15: a poll that ends in a transport error, a non-success status or an
\* unparseable body accepts no job (no workspace, no report), and a later
\* poll is still armed after it.
C15_FailedPollIsNoJob ==
  [][(PollEnds /\ FailedPoll(lastPoll')) => (jobs' = jobs /\ PollScheduled')]_vars

\* C16: a poll whose response lacks job_id or zip_url changes nothing in the
\* pipeline (no job, no workspace, no download, no report), and the next poll
\* is still armed after it.
C16_EmptyPollIsNoOp ==
  [][(PollEnds /\ EmptyPoll(lastPoll')) => (jobs' = jobs /\ PollScheduled')]_vars

\* C17: after every job outcome the process is still running and another
\* poll is armed.
C17_PollsAfterEveryJob ==
  \A j \in Jobs : jobs[j].pc = "done" => PollScheduled

\* a 3xx status
AnyRedirect(status) == status \in 300..399

\* this step is the handling of a response by downloadJobZip
Responded == dl.state = "requesting" /\ dl' # dl /\ dl'.error # "request error"

\* C18: every 3xx response with a Location header is followed by a request
\* of that location, a 3xx response without one rejects, any other status
\* than 200 rejects, and the body of a 200 response is written.
C18_FollowsEveryRedirect ==
  [][Responded =>
       LET r == dl'.last IN
         /\ (AnyRedirect(r.status) /\ r.location # NULL)
              => (dl'.state = "requesting" /\ dl'.url = r.location)
         /\ (AnyRedirect(r.status) /\ r.location = NULL) => dl'.state = "rejected"
         /\ (~AnyRedirect(r.status) /\ r.status # 200) => dl'.state = "rejected"
         /\ r.status = 200 => dl'.state = "piping"]_vars

\* C19: the number of redirect hops one download follows has a bound: it
\* stays below MaxHops, whatever MaxHops is.
C19_HopsBounded ==
  dl.hops < MaxHops

\* the directories of the tree
Dirs == {1} \cup {n \in Entry : tree.kind[n] = "dir"}

\* the directories that contain an entry named pubspec.yaml
Matches == {d \in Dirs : \E n \in Entry : tree.parent[n] = d /\ tree.name[n] = "pubspec.yaml"}

RECURSIVE Ancestors(_)
\* n and the directories above it
Ancestors(n) == IF n = 1 THEN {1} ELSE {n} \cup Ancestors(tree.parent[n])

\* the entry of directory c through which n is reached
Branch(n, c) == CHOOSE x \in Ancestors(n) : x # 1 /\ tree.parent[x] = c

\* a is visited before b by a pre-order walk in listing order: a lies above
\* b, or where their paths part a's branch is listed first
PreOrderBefore(a, b) ==
  LET common == Ancestors(a) \cap Ancestors(b)
      fork == CHOOSE c \in common : \A x \in common : x <= c IN
  \/ a # b /\ a \in Ancestors(b)
  \/ a \notin Ancestors(b) /\ b \notin Ancestors(a) /\ Branch(a, fork) < Branch(b, fork)

\* C20: findFlutterProjectRoot returns null exactly when no directory of the
\* tree contains pubspec.yaml; it returns the one such directory when there is
\* exactly one, at any depth; in general it returns the directory containing
\* pubspec.yaml that a pre-order walk in listing order visits first.
C20_FirstMatchInPreOrder ==
  result.done =>
    /\ (result.root = NoRoot) = (Matches = {})
    /\ Cardinality(Matches) = 1 => Matches = {result.root}
    /\ Matches # {} =>
         /\ result.root \in Matches
         /\ \A m \in Matches \ {result.root} : PreOrderBefore(result.root, m)

\* two subdirectories in different branches contain pubspec.yaml, and one of
\* them was returned
C20_Witness ==
  /\ result.done
  /\ result.root \in Entry
  /\ \E m \in Matches : m \notin Ancestors(result.root) /\ result.root \notin Ancestors(m)

\* every file of the workspace was written by the job that is running
FreshWorkspace ==
  /\ disk.zip \in {Absent, disk.run}
  /\ \A n \in ArchiveNames : disk.extract[n] \in {Absent, disk.run}
  /\ \A n \in AppNames : disk.output[n] \in {Absent, disk.run}

\* C21: every file present in the workspace of a job identifier after a job
\* was put there by that job: nothing written by an earlier job with the same
\* identifier survives (archive, extraction directory, output location).
C21_NoStaleWorkspace ==
  disk.pc = "done" => FreshWorkspace

\* C22: every result reported with status "failed" carries a non-null error.
C22_FailedCarriesError ==
  \A j \in Jobs : \A i \in 1..Len(jobs[j].reports) :
    jobs[j].reports[i].status = "failed" => jobs[j].reports[i].error # NULL

\* a release build that ended without Runner.app has been reported failed
C22_Witness ==
  \E j \in Jobs :
    /\ jobs[j].failure = "artifact" /\ Started(jobs[j], "build_release")
    /\ \E i \in 1..Len(jobs[j].reports) : jobs[j].reports[i].status = "failed"

\* number of times the stage was started for the job
Attempts(job, stage) == Cardinality({i \in 1..Len(job.trace) : job.trace[i] = stage})

\* C24: a job is failed for its download or its dependency step only after
\* the step was re-attempted at least once.
C24_TransientFailureRetried ==
  \A j \in Jobs :
    /\ jobs[j].failure = "download" => Attempts(jobs[j], "download") >= 2
    /\ jobs[j].failure = "pubget" => Attempts(jobs[j], "pubget") >= 2

\* the place of a stage in the pipeline
StageRank(stage) ==
  CASE stage = "workspace" -> 0
    [] stage = "download" -> 1
    [] stage = "extract" -> 2
    [] stage = "findroot" -> 3
    [] stage = "pubget" -> 4
    [] stage = "inspect" -> 5
    [] stage = "import" -> 6
    [] stage \in {"build_sim", "build_release"} -> 7
    [] stage = "copy" -> 8
    [] stage = "publish" -> 9
    [] stage = "report" -> 10

\* the place of the stage a failure belongs to; a build that left no product
\* has failed as a build
FailureRank(failure) ==
  CASE failure = "download" -> 1
    [] failure = "extract" -> 2
    [] failure = "noroot" -> 3
    [] failure = "pubget" -> 4
    [] failure = "signing" -> 6
    [] failure \in {"build", "artifact"} -> 7
    [] failure = "publish" -> 9
    [] failure = "none" -> 10

\* the stage that must have run before the stage
Predecessor(stage) ==
  CASE stage = "download" -> "workspace"
    [] stage = "extract" -> "download"
    [] stage = "findroot" -> "extract"
    [] stage = "pubget" -> "findroot"
    [] stage = "inspect" -> "pubget"
    [] stage = "import" -> "inspect"
    [] stage \in {"build_sim", "build_release"} -> "pubget"
    [] stage = "publish" -> "copy"
    [] OTHER -> "workspace"

\* C25: the stages of one job start in the order download, extraction,
\* project root, dependency step, strategy selection and signing import,
\* build, publication, report; none but the report starts twice, each starts
\* only when the one before it has run, and after a stage has failed nothing
\* but the report starts.
C25_StagesInOrder ==
  \A j \in Jobs :
    LET t == jobs[j].trace IN
    /\ \A i, k \in 1..Len(t) :
         i < k => \/ StageRank(t[i]) < StageRank(t[k])
                  \/ t[i] = "report" /\ t[k] = "report"
    /\ \A k \in 1..Len(t) :
         \/ t[k] \in {"workspace", "report"}
         \/ /\ StageRank(t[k]) <= FailureRank(jobs[j].failure)
            /\ IF t[k] = "copy"
               THEN \E i \in 1..(k - 1) : t[i] \in {"build_sim", "build_release"}
               ELSE \E i \in 1..(k - 1) : t[i] = Predecessor(t[k])

\* a release job went through every stage up to its report
C25_Witness ==
  \E j \in Jobs :
    /\ jobs[j].pc = "done"
    /\ Started(jobs[j], "import") /\ Started(jobs[j], "copy")
    /\ Started(jobs[j], "report")

\* C29: besides the interval itself, at most one poll is armed or in flight
\* at any time.
C29_PollsDoNotAccumulate ==
  timers + polls <= 1

\* log sockets that are connecting or open, and pending reconnect timers
SocketsAndTimers == (IF sock \in {"connecting", "open"} THEN 1 ELSE 0) + rtimers

\* this step is the socket's "close" event
CloseStep == sock # "closed" /\ sock' = "closed"

\* this step is the socket's "error" event
ErrorStep == sock # "closing" /\ sock' = "closing"

\* C30: sockets that are connecting or open and pending reconnect timers
\* number at most one in total; each close schedules exactly one reconnect
\* and an error schedules none.
C30_OneSocketOrTimer ==
  [][/\ SocketsAndTimers' <= 1
     /\ CloseStep => rtimers' = rtimers + 1
     /\ ErrorStep => rtimers' = rtimers]_vars

\* C23: every toolchain invocation is bounded in wall-clock time: none, and
\* in particular none that does not finish by itself, is still alive after
\* MaxTicks, whatever MaxTicks is.
C23_ToolchainBounded ==
  tool.proc \in {"running", "hung"} => tool.elapsed < MaxTicks

\* the entries the "entry" handler has run for
Handled == {unzip.archive[i] : i \in 1..(unzip.next - 1)}

\* the path is relative and has no ".." segment
Plain(path) == \A i \in 1..Len(path) : path[i] \notin {"..", ""}

\* C26: extractZip recreates the archive's relative structure below the
\* destination: each file entry with path p is written at destination/p, each
\* directory entry is created, only the file entries are written, and the
\* parent directory of every file exists when the file is written, whatever
\* the order of the entries.
C26_StructureRecreated ==
  /\ \A e \in Handled :
       Plain(e.path) =>
         IF e.type = "File"
         THEN Dest \o e.path \in unzip.fs.files
         ELSE Dest \o e.path \in unzip.fs.dirs
  /\ Cardinality(unzip.fs.files) = Cardinality({e \in Handled : e.type = "File"})
  /\ ~unzip.fs.orphan
  /\ \A f \in unzip.fs.files :
       \A n \in 0..(Len(f) - 1) : SubSeq(f, 1, n) \in unzip.fs.dirs

\* a file two levels down was written before the entry of its directory came
C26_Witness ==
  /\ unzip.next = 3
  /\ unzip.archive[1] = [path |-> <<"a", "b">>, type |-> "File"]
  /\ unzip.archive[2] = [path |-> <<"a">>, type |-> "Directory"]

\* no attempt is running and no retry is scheduled
Quiescent == retry.running = 0 /\ retry.timer = 0

\* every settled attempt returned a falsy value
AllFailed == \A i \in 1..Len(retry.outcomes) : retry.outcomes[i] = "false"

\* some settled attempt returned a truthy value
SomeSucceeded == \E i \in 1..Len(retry.outcomes) : retry.outcomes[i] = "true"

\* C27: runWithRetry invokes taskFn at most retries+1 times, exactly retries+1
\* times when every attempt fails, never again after an attempt has
\* succeeded, and never while the previous attempt is still running.
C27_AttemptsBounded ==
  /\ retry.attempts = Len(retry.outcomes) + retry.running
  /\ retry.attempts <= retry.retries + 1
  /\ (Quiescent /\ AllFailed) => retry.attempts = retry.retries + 1
  /\ SomeSucceeded =>
       /\ Quiescent
       /\ retry.outcomes[Len(retry.outcomes)] = "true"
  /\ retry.running <= 1
  /\ ~retry.overlap

\* every attempt of a call with at least two retries has failed
C27_Witness ==
  /\ retry.retries >= 2
  /\ Quiescent
  /\ AllFailed
  /\ Len(retry.outcomes) = retry.retries + 1

\* C28: provided every attempt returns, runWithRetry calls onComplete exactly
\* once: with true if and only if some attempt returned success, with false
\* only after the last allowed attempt has failed.
C28_CompletesOnce ==
  /\ Len(retry.completed) <= 1
  /\ (Quiescent /\ ~retry.threw) => Len(retry.completed) = 1
  /\ SomeSucceeded <=> retry.completed = <<TRUE>>
  /\ retry.completed = <<FALSE>> =>
       /\ AllFailed
       /\ Len(retry.outcomes) = retry.retries + 1

\* an attempt succeeded after two failed ones and onComplete was called
C28_Witness ==
  /\ retry.completed = <<TRUE>>
  /\ Len(retry.outcomes) = 3

\* the step is a sendLog call made outside the "open" handler
SendLogStep == logged' = logged + 1 /\ sock' = sock

\* the step is the "open" handler
OpenStep == sock = "connecting" /\ sock' = "open"

\* the step hands a message of sendLog straight to ws.send
DirectSend ==
  /\ logged' = logged + 1
  /\ Len(sent') > Len(sent)
  /\ sent'[Len(sent')] = Direct(logged + 1)

\* C31: whenever sendLog sends a message directly over the socket the log
\* queue is empty; the queue is emptied only by the socket's open handler;
\* and every message logged while the socket is not open (between a
\* disconnect and the next open) is appended to the queue and not sent.
C31_QueueDiscipline ==
  [][/\ DirectSend => logQueue' = <<>> /\ (SendLogStep => logQueue = <<>>)
     /\ Len(logQueue') < Len(logQueue) => OpenStep
     /\ (SendLogStep /\ sock # "open") =>
          /\ logQueue' = Append(logQueue, logged + 1)
          /\ sent' = sent]_vars

\* a message was sent directly, a later one was logged after the socket had
\* closed and reached the server through the queue at the next open
C31_Witness ==
  \E i, k \in 1..Len(sent) :
    /\ i < k
    /\ sent[i] = Direct(sent[i].id)
    /\ sent[k] = Buffered(sent[k].id)
    /\ sent[i].id < sent[k].id
    /\ logQueue = <<>>

\* the path lies under the extraction directory
InsideDest(path) == Len(path) >= Len(Dest) /\ SubSeq(path, 1, Len(Dest)) = Dest

\* C32: extractZip writes only inside the destination directory: for every
\* archive, also one with ".." segments or absolute paths in its entries,
\* every directory created and every file written lies under the job's
\* extraction directory.
C32_WritesInsideDestination ==
  /\ \A f \in unzip.fs.files : InsideDest(f)
  /\ \A d \in unzip.fs.dirs \ MkdirRecursive({}, Dest) : InsideDest(d)

====
